---- MODULE Spec2Model ----
(***************************************************************************)
(* Model of the food-logging backend (src/server.js): the three request   *)
(* handlers, the recognition call, the image-nutrition call and the six   *)
(* nutrition provider adapters.  Every await of a handler is a step: an   *)
(* action issues the upstream call, the next one receives its answer.     *)
(* Upstream answers are drawn from bounded sets of JavaScript values.     *)
(***************************************************************************)
EXTENDS Integers, Sequences, FiniteSets, TLC

(* ------------------------------------------------------------------ *)
(* Bounds of the model                                                  *)
(* ------------------------------------------------------------------ *)
\* numeric tab values 0..MaxTab are tried (6 is the last valid tab)
MaxTab == 7
\* nutrient amounts 0..MaxAmount appear in upstream payloads
MaxAmount == 1

(* ------------------------------------------------------------------ *)
(* JavaScript values.  A string is a sequence of chunks: text the code  *)
(* inspects (trim, indexOf, Number, parseFloat) is held one character   *)
(* per chunk, a literal message is held as one chunk.                   *)
(* ------------------------------------------------------------------ *)
Undef == [t |-> "undef"]
Null == [t |-> "null"]
NaN == [t |-> "nan"]
Num(n) == [t |-> "num", n |-> n]
Str(s) == [t |-> "str", s |-> s]
Bool(b) == [t |-> "bool", b |-> b]
Obj(f) == [t |-> "obj", f |-> f]
Arr(e) == [t |-> "arr", e |-> e]
EmptyObj == Obj(<<>>)

\* ToBoolean: what `!v`, `a || b`, `a && b` and `if (v)` test
Truthy(v) ==
  CASE v.t = "undef" -> FALSE
    [] v.t = "null" -> FALSE
    [] v.t = "nan" -> FALSE
    [] v.t = "num" -> v.n # 0
    [] v.t = "str" -> v.s # <<>>
    [] v.t = "bool" -> v.b
    [] OTHER -> TRUE

\* a || b
Or(a, b) == IF Truthy(a) THEN a ELSE b
\* a && b
And(a, b) == IF Truthy(a) THEN b ELSE a

\* o.k for an object or array o (reading a property of a string, number or
\* boolean gives undefined for the keys used here); the callers guard
\* against undefined and null, on which the read would throw
Get(o, k) ==
  IF o.t = "obj" /\ k \in DOMAIN o.f THEN o.f[k] ELSE Undef

\* a[0]
First(a) ==
  CASE a.t = "arr" -> IF Len(a.e) > 0 THEN a.e[1] ELSE Undef
    [] a.t = "obj" -> Get(a, "0")
    [] OTHER -> Undef

Digits == <<"0", "1", "2", "3", "4", "5", "6", "7", "8", "9">>
IsDigit(c) == \E i \in 1..10 : Digits[i] = c
DigitVal(c) == (CHOOSE i \in 1..10 : Digits[i] = c) - 1
IsSpace(c) == c = " "

RECURSIVE TrimStart(_)
TrimStart(s) ==
  IF s # <<>> /\ IsSpace(Head(s)) THEN TrimStart(Tail(s)) ELSE s

RECURSIVE TrimEnd(_)
TrimEnd(s) ==
  IF s # <<>> /\ IsSpace(s[Len(s)]) THEN TrimEnd(SubSeq(s, 1, Len(s) - 1)) ELSE s

\* String.prototype.trim
Trim(s) == TrimEnd(TrimStart(s))

RECURSIVE DigitsValue(_, _)
DigitsValue(s, acc) ==
  IF s = <<>> THEN acc ELSE DigitsValue(Tail(s), 10 * acc + DigitVal(Head(s)))

\* the longest prefix of s made of digits
RECURSIVE DigitPrefix(_)
DigitPrefix(s) ==
  IF s # <<>> /\ IsDigit(Head(s)) THEN <<Head(s)>> \o DigitPrefix(Tail(s)) ELSE <<>>

\* Number(v), for the unsigned decimal integers the model's requests carry
ToNumber(v) ==
  CASE v.t = "num" -> v
    [] v.t = "bool" -> IF v.b THEN Num(1) ELSE Num(0)
    [] v.t = "null" -> Num(0)
    [] v.t = "str" ->
         LET s == Trim(v.s) IN
           IF s = <<>> THEN Num(0)
           ELSE IF DigitPrefix(s) = s THEN Num(DigitsValue(s, 0))
           ELSE NaN
    [] OTHER -> NaN

\* parseFloat(v): the leading unsigned decimal integer of String(v)
ParseFloat(v) ==
  CASE v.t = "num" -> v
    [] v.t = "str" ->
         LET p == DigitPrefix(TrimStart(v.s)) IN
           IF p = <<>> THEN NaN ELSE Num(DigitsValue(p, 0))
    [] OTHER -> NaN

\* s.indexOf(pat), 0-based, -1 when pat does not occur
IndexOf(s, pat) ==
  LET hits == {i \in 1..(Len(s) - Len(pat) + 1) : SubSeq(s, i, i + Len(pat) - 1) = pat}
  IN IF hits = {} THEN -1 ELSE (CHOOSE i \in hits : \A j \in hits : i <= j) - 1

\* s.slice(from) for 0 <= from
SliceFrom(s, from) == SubSeq(s, from + 1, Len(s))

\* a Buffer: its bytes
Buf(bytes) == [t |-> "buffer", bytes |-> bytes]
\* the base64 alphabet, by 6-bit value
Base64Chars ==
  <<"A", "B", "C", "D", "E", "F", "G", "H", "I", "J", "K", "L", "M", "N", "O", "P",
    "Q", "R", "S", "T", "U", "V", "W", "X", "Y", "Z", "a", "b", "c", "d", "e", "f",
    "g", "h", "i", "j", "k", "l", "m", "n", "o", "p", "q", "r", "s", "t", "u", "v",
    "w", "x", "y", "z", "0", "1", "2", "3", "4", "5", "6", "7", "8", "9", "+", "/">>
Base64Char(sextet) == Base64Chars[sextet + 1]
\* buffer.toString('base64'): three bytes to four characters, '=' padding
RECURSIVE ToBase64(_)
ToBase64(bytes) ==
  IF bytes = <<>> THEN <<>>
  ELSE LET a == bytes[1] IN
    IF Len(bytes) = 1
    THEN <<Base64Char(a \div 4), Base64Char((a % 4) * 16), "=", "=">>
    ELSE LET b == bytes[2] IN
      IF Len(bytes) = 2
      THEN <<Base64Char(a \div 4), Base64Char((a % 4) * 16 + b \div 16),
             Base64Char((b % 16) * 4), "=">>
      ELSE LET c == bytes[3] IN
        <<Base64Char(a \div 4), Base64Char((a % 4) * 16 + b \div 16),
          Base64Char((b % 16) * 4 + c \div 64), Base64Char(c % 64)>>
          \o ToBase64(SubSeq(bytes, 4, Len(bytes)))

Base64Mark == <<"b", "a", "s", "e", "6", "4", ",">>
JpegPrefix == <<"data:image/jpeg;">> \o Base64Mark

\* a strip that cuts one character short of the end of the marker
stripBase64PrefixShort(b64) ==
  IF ~Truthy(b64) THEN b64
  ELSE LET idx == IndexOf(b64.s, Base64Mark) IN
         IF idx >= 0 THEN Str(SliceFrom(b64.s, idx + 6)) ELSE b64

\* a strip without the guard for absent input, reading its input as text
stripBase64PrefixUnguarded(b64) ==
  LET text == IF b64.t = "str" THEN b64.s ELSE <<"undefined">>
      idx == IndexOf(text, Base64Mark)
  IN IF idx >= 0 THEN Str(SliceFrom(text, idx + 7)) ELSE Str(text)

\* stripBase64Prefix(b64)
stripBase64Prefix(b64) ==
  IF ~Truthy(b64) THEN b64
  ELSE LET idx == IndexOf(b64.s, Base64Mark) IN
         IF idx >= 0 THEN Str(SliceFrom(b64.s, idx + 7)) ELSE b64

\* bufferToDataUrl(buffer, mime)
bufferToDataUrl(buffer, mime) ==
  Str(<<"data:">> \o mime.s \o <<";">> \o Base64Mark \o ToBase64(buffer.bytes))

\* `data:image/jpeg;base64,${base64Only}`
JpegDataUrl(image) == Str(JpegPrefix \o stripBase64Prefix(image).s)

(* ------------------------------------------------------------------ *)
(* Errors and upstream outcomes                                         *)
(* ------------------------------------------------------------------ *)
\* a literal string of the source
Lit(text) == Str(<<text>>)
\* new Error(msg)
Err(msg) == Obj([message |-> msg])
\* a + b on two strings
Concat(a, b) == Str(a.s \o b.s)

\* what an awaited upstream call does: it returns v, or it throws v
Returned(v) == [ok |-> TRUE, v |-> v]
Threw(v) == [ok |-> FALSE, v |-> v]

\* an adapter's result: the value it returns or the error it throws, and
\* the lines it wrote with console.error
Result(ok, v, lines) == [ok |-> ok, v |-> v, lines |-> lines]

\* err.message || err
MessageOf(err) == Or(Get(err, "message"), err)
\* err.response?.data || err.message || err
DetailOf(err) ==
  LET response == Get(err, "response")
      data == IF response.t \in {"undef", "null"} THEN Undef ELSE Get(response, "data")
  IN Or(data, MessageOf(err))

\* errors the HTTP transport (axios) throws
AxiosErrors ==
  { Obj([message |-> Lit("Network Error"), response |-> Undef]),
    Obj([message |-> Lit("Request failed with status code 401"),
         response |-> Obj([data |-> Obj([message |-> Lit("invalid credentials")])])]) }
\* errors the model SDK throws
OpenAIErrors == { Obj([message |-> Lit("429 rate limit exceeded")]) }

(* ------------------------------------------------------------------ *)
(* Recognition: analyzeWithOpenAI                                       *)
(* ------------------------------------------------------------------ *)
\* response.choices[0]?.message?.content
ChatContent(response) ==
  LET c == First(Get(response, "choices")) IN
    IF c.t \in {"undef", "null"} THEN Undef
    ELSE LET m == Get(c, "message") IN
      IF m.t \in {"undef", "null"} THEN Undef ELSE Get(m, "content")

ChatResponse(content) ==
  Obj([choices |-> Arr(<<Obj([message |-> Obj([content |-> content])])>>)])

\* texts the vision model answers with
RecognitionTexts ==
  { Str(<<>>), Str(<<" ">>), Str(<<" ", "r", " ">>), Str(<<"p", "i">>) }

RecognitionOutcomes ==
  {Threw(e) : e \in OpenAIErrors}
    \cup {Returned(ChatResponse(c)) : c \in RecognitionTexts \cup {Undef, Null}}
    \cup {Returned(Obj([choices |-> Arr(<<>>)]))}

\* the catch block of analyzeWithOpenAI
VisionCatch(err) ==
  Result(FALSE, Err(Concat(Lit("OpenAI Vision failed: "), MessageOf(err))),
         << <<"OpenAI Vision error:", MessageOf(err)>> >>)

\* a recognition that does not trim the model's text
analyzeWithOpenAINoTrim(outcome) ==
  IF ~outcome.ok THEN VisionCatch(outcome.v)
  ELSE LET text == Or(ChatContent(outcome.v), Str(<<>>)) IN
    IF ~Truthy(text) THEN VisionCatch(Err(Lit("Empty recognition result from OpenAI")))
    ELSE Result(TRUE, text, <<>>)

\* analyzeWithOpenAI from the await on: the text, trimmed, or the error
analyzeWithOpenAI(outcome) ==
  IF ~outcome.ok THEN VisionCatch(outcome.v)
  ELSE LET text == Str(Trim(Or(ChatContent(outcome.v), Str(<<>>)).s)) IN
    IF ~Truthy(text) THEN VisionCatch(Err(Lit("Empty recognition result from OpenAI")))
    ELSE Result(TRUE, text, <<>>)

(* ------------------------------------------------------------------ *)
(* Upstream payloads of the nutrition providers                         *)
(* ------------------------------------------------------------------ *)
Amounts == {Num(n) : n \in 0..MaxAmount}
\* a nutrient of a payload: absent, or an amount
RawAmounts == {Undef} \cup Amounts

\* { calories, protein, carbs, fat }
Record(calories, protein, carbs, fat) ==
  Obj([calories |-> calories, protein |-> protein, carbs |-> carbs, fat |-> fat])

\* the resolved value of an axios call whose body is `body`
AxiosResponse(body) == Returned(Obj([data |-> body]))
AxiosFailures == {Threw(e) : e \in AxiosErrors}

Quantity(a) == IF a = Undef THEN Undef ELSE Obj([quantity |-> a])

Edamam1Bodies ==
  {Undef, EmptyObj}
    \cup {Obj([calories |-> c, totalNutrients |-> Undef]) : c \in RawAmounts}
    \cup {Obj([calories |-> c,
               totalNutrients |-> Obj([PROCNT |-> Quantity(p), CHOCDF |-> Quantity(cb),
                                       FAT |-> Quantity(f)])]) :
            c \in RawAmounts, p \in RawAmounts, cb \in RawAmounts, f \in RawAmounts}

\* a food of the food database: its nutrients, or none
Edamam2Food(c, p) ==
  Obj([nutrients |-> Obj([ENERC_KCAL |-> c, PROCNT |-> p, CHOCDF |-> p, FAT |-> c])])
Edamam2Foods ==
  {Obj([nutrients |-> Undef])} \cup {Edamam2Food(c, p) : c \in RawAmounts, p \in RawAmounts}
\* a "parsed" or "hints" list: missing, empty, an entry without food, an entry
Edamam2Lists(foods) ==
  {Undef, Arr(<<>>), Arr(<<EmptyObj>>)} \cup {Arr(<<Obj([food |-> f])>>) : f \in foods}
Edamam2Bodies ==
  {Undef}
    \cup {Obj([parsed |-> ps, hints |-> hs]) :
            ps \in Edamam2Lists(Edamam2Foods),
            hs \in Edamam2Lists({Edamam2Food(Num(MaxAmount), Undef)})}

OffNutriments(kcalDash, kcalUnder, p) ==
  Obj(("energy-kcal" :> kcalDash) @@ ("energy_kcal" :> kcalUnder)
        @@ ("proteins" :> p) @@ ("carbohydrates" :> p) @@ ("fat" :> kcalUnder))
OffProducts ==
  {Obj([nutriments |-> Undef])}
    \cup {Obj([nutriments |-> OffNutriments(a, b, p)]) :
            a \in RawAmounts, b \in RawAmounts, p \in RawAmounts}
OffBodies ==
  {Undef, EmptyObj, Obj([products |-> Arr(<<>>)])}
    \cup {Obj([products |-> Arr(<<pr>>)]) : pr \in OffProducts}

(* ------------------------------------------------------------------ *)
(* Single-call provider adapters (tabs 1, 2, 4)                         *)
(* ------------------------------------------------------------------ *)
\* the catch block shared by the adapters: console.error(label, detail) and
\* a fresh Error carrying `message`
AdapterCatch(label, err, message) ==
  Result(FALSE, Err(message), << <<label, DetailOf(err)>> >>)

\* getNutritionEdamam1 from the await on
getNutritionEdamam1(outcome) ==
  IF ~outcome.ok
  THEN AdapterCatch("Edamam Nutrition error:", outcome.v, Lit("Edamam Nutrition failed"))
  ELSE LET data == Or(Get(outcome.v, "data"), EmptyObj)
           calories == Or(Get(data, "calories"), Num(0))
           total == Or(Get(data, "totalNutrients"), EmptyObj)
           protein == Or(And(Get(total, "PROCNT"), Get(Get(total, "PROCNT"), "quantity")), Num(0))
           carbs == Or(And(Get(total, "CHOCDF"), Get(Get(total, "CHOCDF"), "quantity")), Num(0))
           fat == Or(And(Get(total, "FAT"), Get(Get(total, "FAT"), "quantity")), Num(0))
       IN Result(TRUE, Record(calories, protein, carbs, fat), <<>>)

\* a choice of food that looks at the hints before the parsed entries
Edamam2PickHintsFirst(data) ==
  LET parsed == Get(data, "parsed")
      hints == Get(data, "hints")
  IN Or(And(And(hints, First(hints)), Get(First(hints), "food")),
        And(And(parsed, First(parsed)), Get(First(parsed), "food")))

\* (data.parsed && data.parsed[0] && data.parsed[0].food)
\*   || (data.hints && data.hints[0] && data.hints[0].food)
Edamam2Pick(data) ==
  LET parsed == Get(data, "parsed")
      hints == Get(data, "hints")
  IN Or(And(And(parsed, First(parsed)), Get(First(parsed), "food")),
        And(And(hints, First(hints)), Get(First(hints), "food")))

\* getNutritionEdamam2 from the await on
getNutritionEdamam2(outcome) ==
  IF ~outcome.ok
  THEN AdapterCatch("Edamam FoodDB error:", outcome.v, Lit("Edamam FoodDB failed"))
  ELSE LET data == Or(Get(outcome.v, "data"), EmptyObj)
           food == Edamam2Pick(data)
       IN IF ~Truthy(food)
          THEN AdapterCatch("Edamam FoodDB error:", Err(Lit("Food not found in Edamam Food DB")),
                            Lit("Edamam FoodDB failed"))
          ELSE LET n == Or(Get(food, "nutrients"), EmptyObj) IN
               Result(TRUE,
                      Record(Or(Get(n, "ENERC_KCAL"), Num(0)), Or(Get(n, "PROCNT"), Num(0)),
                             Or(Get(n, "CHOCDF"), Num(0)), Or(Get(n, "FAT"), Num(0))),
                      <<>>)

\* getNutritionOpenFoodFacts from the await on
getNutritionOpenFoodFacts(outcome) ==
  IF ~outcome.ok
  THEN AdapterCatch("OpenFoodFacts error:", outcome.v, Lit("OpenFoodFacts failed"))
  ELSE LET data == Get(outcome.v, "data")
           products == And(data, Get(data, "products"))
           product == And(products, First(products))
       IN IF ~Truthy(product)
          THEN AdapterCatch("OpenFoodFacts error:", Err(Lit("OpenFoodFacts: not found")),
                            Lit("OpenFoodFacts failed"))
          ELSE LET n == Or(Get(product, "nutriments"), EmptyObj) IN
               Result(TRUE,
                      Record(Or(Or(Get(n, "energy-kcal"), Get(n, "energy_kcal")), Num(0)),
                             Or(Get(n, "proteins"), Num(0)),
                             Or(Get(n, "carbohydrates"), Num(0)),
                             Or(Get(n, "fat"), Num(0))),
                      <<>>)

(* ------------------------------------------------------------------ *)
(* Model-backed nutrition: brace-span extraction and JSON.parse         *)
(* ------------------------------------------------------------------ *)
\* s.lastIndexOf(pat), 0-based, -1 when pat does not occur
LastIndexOf(s, pat) ==
  LET hits == {i \in 1..(Len(s) - Len(pat) + 1) : SubSeq(s, i, i + Len(pat) - 1) = pat}
  IN IF hits = {} THEN -1 ELSE (CHOOSE i \in hits : \A j \in hits : i >= j) - 1

\* s.slice(from, to) for 0 <= from, 0 <= to
Slice(s, from, to) == IF to <= from THEN <<>> ELSE SubSeq(s, from + 1, to)

\* JSON text is held one token per chunk: the braces, the comma, and whole
\* members `"key":value`; MemberTable reads a member token
MemberTable ==
  ("\"foodName\":\"pi\"" :> [k |-> "foodName", v |-> Str(<<"p", "i">>)])
    @@ ("\"foodName\":\"dal\"" :> [k |-> "foodName", v |-> Str(<<"d", "a", "l">>)])
    @@ ("\"foodName\":\"\"" :> [k |-> "foodName", v |-> Str(<<>>)])
    @@ ("\"foodName\":null" :> [k |-> "foodName", v |-> Null])
    @@ ("\"calories\":250" :> [k |-> "calories", v |-> Num(250)])
    @@ ("\"calories\":0" :> [k |-> "calories", v |-> Num(0)])
    @@ ("\"calories\":\"n/a\"" :> [k |-> "calories", v |-> Str(<<"n", "/", "a">>)])
    @@ ("\"protein\":10" :> [k |-> "protein", v |-> Num(10)])
    @@ ("\"carbs\":30" :> [k |-> "carbs", v |-> Num(30)])
    @@ ("\"fat\":8" :> [k |-> "fat", v |-> Num(8)])
IsMember(tok) == tok \in DOMAIN MemberTable
JsonKeys == {"foodName", "calories", "protein", "carbs", "fat"}

RECURSIVE DropSpaces(_)
DropSpaces(s) ==
  IF s = <<>> THEN <<>>
  ELSE IF IsSpace(Head(s)) THEN DropSpaces(Tail(s))
  ELSE <<Head(s)>> \o DropSpaces(Tail(s))

\* member (, member)* : members at the odd places, commas at the even ones
IsMemberList(toks) ==
  /\ Len(toks) % 2 = 1
  /\ \A i \in 1..Len(toks) : IF i % 2 = 1 THEN IsMember(toks[i]) ELSE toks[i] = ","

\* the value of `key` in a member list: the last member naming it wins
ValueIn(toks, key) ==
  LET at == {i \in 1..Len(toks) : IsMember(toks[i]) /\ MemberTable[toks[i]].k = key}
  IN IF at = {} THEN Undef
     ELSE MemberTable[toks[CHOOSE i \in at : \A j \in at : i >= j]].v

\* JSON.parse(text) of a span that begins with '{': the object, or a SyntaxError
JSONParse(text) ==
  LET toks == DropSpaces(text)
      inner == SubSeq(toks, 2, Len(toks) - 1)
      wellFormed == /\ Len(toks) >= 2
                    /\ toks[1] = "{"
                    /\ toks[Len(toks)] = "}"
                    /\ (inner = <<>> \/ IsMemberList(inner))
  IN IF wellFormed
     THEN Returned(Obj([k \in JsonKeys |-> ValueIn(inner, k)]))
     ELSE Threw(Err(Lit("Unexpected token in JSON")))

\* an extraction that cuts the span before the closing brace
ExtractJsonShort(out, notJson) ==
  LET first == IndexOf(out.s, <<"{">>)
      last == LastIndexOf(out.s, <<"}">>)
  IN IF first < 0 \/ last < 0 THEN Threw(Err(notJson))
     ELSE JSONParse(Slice(out.s, first, last))

\* the shared extraction: first '{' to last '}', parsed; `notJson` is the
\* message of the error thrown when a brace is missing
ExtractJson(out, notJson) ==
  LET first == IndexOf(out.s, <<"{">>)
      last == LastIndexOf(out.s, <<"}">>)
  IN IF first < 0 \/ last < 0 THEN Threw(Err(notJson))
     ELSE JSONParse(Slice(out.s, first, last + 1))

\* getNutritionFromOpenAIImage from the await on
getNutritionFromOpenAIImage(outcome) ==
  LET catch(err) ==
        Result(FALSE,
               Err(Concat(Lit("OpenAI Nutrition image analysis failed: "), MessageOf(err))),
               << <<"OpenAI Nutrition (image) error:", MessageOf(err)>> >>)
  IN IF ~outcome.ok THEN catch(outcome.v)
     ELSE LET out == Or(ChatContent(outcome.v), Str(<<>>))
              parsed == ExtractJson(out, Concat(Lit("OpenAI nutrition output not JSON: "), out))
          IN IF parsed.ok THEN Result(TRUE, parsed.v, <<>>) ELSE catch(parsed.v)

\* getNutritionFromOpenAIByName from the await on
getNutritionFromOpenAIByName(outcome) ==
  LET catch(err) ==
        Result(FALSE, Err(Lit("OpenAI nutrition lookup failed")),
               << <<"OpenAI nutrition by name error:", MessageOf(err)>> >>)
  IN IF ~outcome.ok THEN catch(outcome.v)
     ELSE LET out == Or(ChatContent(outcome.v), Str(<<>>))
              parsed == ExtractJson(out, Lit("OpenAI nutrition response not JSON"))
          IN IF parsed.ok THEN Result(TRUE, parsed.v, <<>>) ELSE catch(parsed.v)

\* JSON objects the model writes: any of the five members may be missing
RECURSIVE Join(_)
Join(members) ==
  IF Len(members) <= 1 THEN members
  ELSE <<Head(members), ",">> \o Join(Tail(members))
NameMembers ==
  {<<>>, <<"\"foodName\":\"pi\"">>, <<"\"foodName\":\"dal\"">>, <<"\"foodName\":\"\"">>,
   <<"\"foodName\":null">>}
CalorieMembers ==
  {<<>>, <<"\"calories\":250">>, <<"\"calories\":0">>, <<"\"calories\":\"n/a\"">>}
MacroMembers == {<<>>, <<"\"protein\":10", "\"carbs\":30", "\"fat\":8">>}
JsonObjects ==
  {<<"{">> \o Join(n \o c \o m) \o <<"}">> :
     n \in NameMembers, c \in CalorieMembers, m \in MacroMembers}
\* spans that do not parse, or that have no span
Malformed ==
  { <<>>, <<"n", "o">>, <<"{">>, <<"}">>, <<"}", "{">>, <<"{", "{", "}", "}">>,
    <<"{", "\"calories\":250", "\"fat\":8", "}">>, <<"{", ",", "}">> }
Prose == {<<>>, <<"O", "k", " ">>}
ModelTexts ==
  {Str(pre \o body \o post) :
     pre \in Prose, body \in JsonObjects \cup Malformed, post \in Prose}
ModelOutcomes ==
  {Threw(e) : e \in OpenAIErrors}
    \cup {Returned(ChatResponse(c)) : c \in ModelTexts \cup {Undef}}

(* ------------------------------------------------------------------ *)
(* Chained provider adapters (tabs 3 and 5).  A stage either ends the   *)
(* adapter with a Result or issues the next upstream call.              *)
(* ------------------------------------------------------------------ *)
Final(res) == [fin |-> TRUE, res |-> res]
Continue(op, arg, pcNext, token) ==
  [fin |-> FALSE, op |-> op, arg |-> arg, pc |-> pcNext, token |-> token]

\* the decimal text of a one-digit amount
DigitText(n) == Str(<<Digits[n + 1]>>)

FsTokenBodies ==
  {Undef, EmptyObj, Obj([access_token |-> Str(<<>>)]), Obj([access_token |-> Lit("tok")])}
FsFoods == {EmptyObj, Obj([food_id |-> Lit("33"), id |-> Undef]),
            Obj([food_id |-> Undef, id |-> Lit("44")])}
FsSearchBodies ==
  {Undef, EmptyObj, Obj([foods |-> Obj([total_results |-> Lit("0")])]),
   Obj([foods |-> Obj([food |-> Arr(<<>>)])])}
    \cup {Obj([foods |-> Obj([food |-> Arr(<<f>>)])]) : f \in FsFoods}
    \cup {Obj([foods |-> Obj([food |-> f])]) : f \in FsFoods}
    \cup {Obj([food |-> Arr(<<f>>)]) : f \in FsFoods}
\* serving fields arrive as text: absent, a number, or not a number
FsFields == {Undef, Str(<<"x">>)} \cup {DigitText(n) : n \in 0..MaxAmount}
FsServings ==
  {Obj([calories |-> c, protein |-> p, carbohydrate |-> p, fat |-> c]) :
     c \in FsFields, p \in FsFields}
FsDetailBodies ==
  {Undef, EmptyObj, Obj([food |-> EmptyObj]),
   Obj([food |-> Obj([servings |-> Obj([serving |-> Arr(<<>>)])])])}
    \cup {Obj([food |-> Obj([servings |-> Obj([serving |-> Arr(<<sv>>)])])]) : sv \in FsServings}
    \cup {Obj([food |-> Obj([servings |-> Obj([serving |-> sv])])]) : sv \in FsServings}

\* the catch block of getNutritionFatSecret
FatSecretCatch(err) == AdapterCatch("FatSecret error:", err, Lit("FatSecret failed"))

\* a token stage that does not look at the token it got
FatSecretAfterTokenUnchecked(foodName, outcome) ==
  IF ~outcome.ok THEN Final(FatSecretCatch(outcome.v))
  ELSE LET data == Get(outcome.v, "data")
           token == And(data, Get(data, "access_token"))
       IN Continue("fatsecret.search",
                   Obj([search_expression |-> foodName, bearer |-> token]),
                   "FatSecret.search", token)

\* getNutritionFatSecret after the token exchange
FatSecretAfterToken(foodName, outcome) ==
  IF ~outcome.ok THEN Final(FatSecretCatch(outcome.v))
  ELSE LET data == Get(outcome.v, "data")
           token == And(data, Get(data, "access_token"))
       IN IF ~Truthy(token) THEN Final(FatSecretCatch(Err(Lit("FatSecret token failed"))))
          ELSE Continue("fatsecret.search",
                        Obj([search_expression |-> foodName, bearer |-> token]),
                        "FatSecret.search", token)

\* the first food of a search answer
FatSecretFirstFood(data) ==
  LET foods == And(data, Or(Get(data, "foods"), Get(data, "food")))
  IN IF ~Truthy(foods) THEN Undef
     ELSE IF Get(foods, "food").t = "arr" THEN First(Get(foods, "food"))
     ELSE Or(Get(foods, "food"), First(foods))

\* getNutritionFatSecret after the search
FatSecretAfterSearch(token, outcome) ==
  IF ~outcome.ok THEN Final(FatSecretCatch(outcome.v))
  ELSE LET firstFood == FatSecretFirstFood(Get(outcome.v, "data"))
       IN IF ~Truthy(firstFood) THEN Final(FatSecretCatch(Err(Lit("FatSecret: no food found"))))
          ELSE Continue("fatsecret.detail",
                        Obj([food_id |-> Or(Get(firstFood, "food_id"), Get(firstFood, "id")),
                             bearer |-> token]),
                        "FatSecret.detail", token)

\* getNutritionFatSecret after the detail fetch
FatSecretAfterDetail(outcome) ==
  IF ~outcome.ok THEN Final(FatSecretCatch(outcome.v))
  ELSE LET data == Get(outcome.v, "data")
           foodDetail == And(data, Get(data, "food"))
           servings == Get(foodDetail, "servings")
           serving == And(foodDetail,
                          And(And(servings, Get(servings, "serving")),
                              First(Get(servings, "serving"))))
       IN IF ~Truthy(serving) THEN Final(FatSecretCatch(Err(Lit("FatSecret: no serving info"))))
          ELSE Final(Result(TRUE,
                 Record(Or(ParseFloat(Get(serving, "calories")), Num(0)),
                        Or(ParseFloat(Get(serving, "protein")), Num(0)),
                        Or(ParseFloat(Get(serving, "carbohydrate")), Num(0)),
                        Or(ParseFloat(Get(serving, "fat")), Num(0))),
                 <<>>))

\* a figure of the guess-nutrition answer: absent, a bare number, or a
\* { value } / { amount } wrapper, possibly holding text that is no number
SpWrapped ==
  {EmptyObj, Obj([value |-> Str(<<"x">>), amount |-> Undef])}
    \cup {Obj([value |-> a, amount |-> Undef]) : a \in Amounts}
    \cup {Obj([value |-> Undef, amount |-> a]) : a \in Amounts}
SpFigures == RawAmounts \cup SpWrapped
SpGuessBodies ==
  {Undef, EmptyObj}
    \cup {Obj([calories |-> c, protein |-> p, carbs |-> p, fat |-> c]) :
            c \in SpFigures, p \in SpFigures}
SpSearchBodies ==
  {Undef, EmptyObj, Obj([results |-> Arr(<<>>)]), Obj([results |-> EmptyObj]),
   Obj([results |-> Arr(<<Obj([id |-> Num(9)])>>)])}
Nutrient(name, amount) == Obj([name |-> name, amount |-> amount])
SpNutrientLists ==
  {<<>>, <<Obj([amount |-> Num(MaxAmount)])>>}
    \cup {<<Nutrient(Str(<<"C", "a", "l", "o", "r", "i", "e", "s">>), a),
            Nutrient(Str(<<"P", "r", "o", "t", "e", "i", "n">>), b),
            Nutrient(Str(<<"N", "e", "t", " ", "C", "a", "r", "b", "o", "h", "y", "d", "r", "a", "t", "e", "s">>), b),
            Nutrient(Str(<<"F", "a", "t">>), a)>> : a \in Amounts, b \in Amounts}
    \cup {<<Nutrient(Str(<<"S", "a", "t", "u", "r", "a", "t", "e", "d", " ", "F", "a", "t">>), a),
            Nutrient(Str(<<"F", "a", "t">>), b)>> : a \in Amounts, b \in Amounts}
SpInfoBodies ==
  {Undef, EmptyObj, Obj([nutrition |-> EmptyObj])}
    \cup {Obj([nutrition |-> Obj([nutrients |-> Arr(l)])]) : l \in SpNutrientLists}

\* the catch block of getNutritionSpoonacular:
\* 'Spoonacular failed: ' + (err.response?.data?.message || err.message)
SpoonacularCatch(err) ==
  LET response == Get(err, "response")
      data == IF response.t \in {"undef", "null"} THEN Undef ELSE Get(response, "data")
      upstream == IF data.t \in {"undef", "null"} THEN Undef ELSE Get(data, "message")
  IN AdapterCatch("Spoonacular error:", err,
                  Concat(Lit("Spoonacular failed: "), Or(upstream, Get(err, "message"))))

\* parseVal of getNutritionSpoonacular
parseVal(v) ==
  IF ~Truthy(v) THEN Num(0)
  ELSE IF v.t = "num" THEN v
  ELSE IF Get(v, "value") # Undef THEN ParseFloat(Get(v, "value"))
  ELSE IF Get(v, "amount") # Undef THEN ParseFloat(Get(v, "amount"))
  ELSE Num(0)

\* a guess-nutrition stage that falls back to the ingredient search when the
\* guess call itself fails
SpoonacularAfterGuessFallsBack(foodName, outcome) ==
  IF ~outcome.ok
  THEN Continue("spoonacular.search", Obj([query |-> foodName]), "Spoonacular.search", Undef)
  ELSE Final(Result(TRUE, Record(Num(0), Num(0), Num(0), Num(0)), <<>>))

\* a test of the guess that takes a calorie figure of 0 for a missing one
HasCaloriesTruthy(data) == Truthy(And(data, Get(data, "calories")))

\* guessRes.data && (guessRes.data.calories || guessRes.data.calories === 0)
HasCalories(data) ==
  Truthy(And(data, Or(Get(data, "calories"), Bool(Get(data, "calories") = Num(0)))))

\* getNutritionSpoonacular after the guess-nutrition call
SpoonacularAfterGuess(foodName, outcome) ==
  IF ~outcome.ok THEN Final(SpoonacularCatch(outcome.v))
  ELSE LET data == Get(outcome.v, "data") IN
    IF HasCalories(data)
    THEN Final(Result(TRUE,
                      Record(parseVal(Get(data, "calories")), parseVal(Get(data, "protein")),
                             parseVal(Get(data, "carbs")), parseVal(Get(data, "fat"))),
                      <<>>))
    ELSE Continue("spoonacular.search", Obj([query |-> foodName]), "Spoonacular.search", Undef)

\* v.length of an array; undefined otherwise
Length(v) == IF v.t = "arr" THEN Num(Len(v.e)) ELSE Undef

\* getNutritionSpoonacular after the ingredient search
SpoonacularAfterSearch(outcome) ==
  IF ~outcome.ok THEN Final(SpoonacularCatch(outcome.v))
  ELSE LET data == Get(outcome.v, "data")
           results == Or(And(data, Get(data, "results")), Arr(<<>>))
       IN IF ~Truthy(Length(results))
          THEN Final(SpoonacularCatch(Err(Lit("Spoonacular: ingredient not found"))))
          ELSE Continue("spoonacular.info", Obj([id |-> Get(First(results), "id")]),
                        "Spoonacular.info", Undef)

ToLowerChar(c) ==
  CASE c = "C" -> "c" [] c = "P" -> "p" [] c = "F" -> "f" [] c = "S" -> "s"
    [] c = "N" -> "n" [] OTHER -> c
\* s.toLowerCase()
ToLower(s) == [i \in 1..Len(s) |-> ToLowerChar(s[i])]
\* s.includes(part)
Includes(s, part) == IndexOf(s, part) >= 0

\* find(name): the amount of the first nutrient whose name includes `name`
FindNutrient(nutr, name) ==
  LET list == IF Truthy(nutr) /\ nutr.t = "arr" THEN nutr.e ELSE <<>>
      at == {i \in 1..Len(list) :
               /\ Truthy(Get(list[i], "name"))
               /\ Includes(ToLower(Get(list[i], "name").s), name)}
  IN IF at = {} THEN Num(0)
     ELSE Get(list[CHOOSE i \in at : \A j \in at : i <= j], "amount")

\* getNutritionSpoonacular after the ingredient-information call
SpoonacularAfterInfo(outcome) ==
  IF ~outcome.ok THEN Final(SpoonacularCatch(outcome.v))
  ELSE LET data == Get(outcome.v, "data")
           nutrition == And(data, Get(data, "nutrition"))
           nutr == And(nutrition, Get(nutrition, "nutrients"))
       IN Final(Result(TRUE,
            Record(Or(FindNutrient(nutr, <<"c", "a", "l", "o", "r", "i", "e", "s">>), Num(0)),
                   Or(FindNutrient(nutr, <<"p", "r", "o", "t", "e", "i", "n">>), Num(0)),
                   Or(FindNutrient(nutr, <<"c", "a", "r", "b", "o", "h", "y", "d", "r", "a", "t", "e">>), Num(0)),
                   Or(FindNutrient(nutr, <<"f", "a", "t">>), Num(0))),
            <<>>))

(* ------------------------------------------------------------------ *)
(* Inputs of the image codec                                            *)
(* ------------------------------------------------------------------ *)
MaxPayload == 2
MaxBytes == 2
SeqsUpTo(S, n) == UNION {[1..k -> S] : k \in 0..n}
\* base64 payloads: text over the base64 alphabet and its padding; one spells
\* the marker's own letters
Payloads ==
  SeqsUpTo({"Q", "6", "/", "="}, MaxPayload) \cup {<<"b", "a", "s", "e", "6", "4">>}
\* MIME types, the last two character by character
Mimes == {<<"image/png">>, <<"a", "/", "b">>, <<"b", "a", "s", "e", "6", "4">>}
\* file contents
Buffers == {Buf(bytes) : bytes \in SeqsUpTo({0, 77, 255}, MaxBytes)}
\* `data:<mime>;base64,<payload>`
DataUrl(mime, payload) == Str(<<"data:">> \o mime \o <<";">> \o Base64Mark \o payload)
\* what the codec is given: an absent image, a bare payload, a data URL, or
\* the data URL made of a file, each with the payload it stands for
CodecInputs ==
  {[endpoint |-> "codec", kind |-> "absent", payload |-> v, input |-> v] :
     v \in {Undef, Str(<<>>)}}
    \cup {[endpoint |-> "codec", kind |-> "bare", payload |-> Str(p), input |-> Str(p)] :
            p \in Payloads}
    \cup {[endpoint |-> "codec", kind |-> "dataUrl", payload |-> Str(p),
           input |-> DataUrl(m, p)] : p \in Payloads, m \in Mimes}
    \cup {[endpoint |-> "codec", kind |-> "file", payload |-> Str(ToBase64(b.bytes)),
           input |-> bufferToDataUrl(b, Str(m))] : b \in Buffers, m \in Mimes}

(* ------------------------------------------------------------------ *)
(* State: one entry per request                                          *)
(* ------------------------------------------------------------------ *)
VARIABLES
  req,       \* the request: its endpoint and inputs
  pc,        \* where the handler stands: the await it is suspended at
  calls,     \* the upstream calls the request issued, in order
  rets,      \* what each completed call returned or threw, in order
  foodName,  \* the handler's foodName (the recognized dish name)
  locals,    \* the running adapter's foodName parameter and bearer token
  sent,      \* the responses written to the client
  log        \* the console.error lines written for the request

vars == <<req, pc, calls, rets, foodName, locals, sent, log>>

Requests == {1}

Images ==
  {Undef, Str(<<>>), Str(<<"Q", "Q">>),
   Str(<<"data:image/png;">> \o Base64Mark \o <<"Q", "Q">>)}
\* `tab` of a JSON body: missing, null, a number, text, true
AnalyzeTabs ==
  {Undef, Null, Bool(TRUE), Str(<<>>), Str(<<"x">>)}
    \cup {Num(n) : n \in 0..MaxTab} \cup {DigitText(n) : n \in 0..MaxTab}
\* `:tab` of the route: always text
LookupTabs == {Str(<<"x">>), Str(<<"0", "3">>)} \cup {DigitText(n) : n \in 0..MaxTab}
\* `q` of the query string
Queries == {Undef, Str(<<>>), Str(<<" ">>), Str(<<"p", "i">>)}
\* the uploaded file: none, or its bytes (held as their base64 text) and type
Files ==
  {Undef, Obj([buffer |-> Buf(<<65>>), mimetype |-> Undef]),
   Obj([buffer |-> Buf(<<65>>), mimetype |-> Lit("image/png")])}

NoLocals == [foodName |-> Undef, token |-> Undef]

Init ==
  /\ req = [r \in Requests |-> [endpoint |-> "none"]]
  /\ pc = [r \in Requests |-> "idle"]
  /\ calls = [r \in Requests |-> <<>>]
  /\ rets = [r \in Requests |-> <<>>]
  /\ foodName = [r \in Requests |-> Undef]
  /\ locals = [r \in Requests |-> NoLocals]
  /\ sent = [r \in Requests |-> <<>>]
  /\ log = [r \in Requests |-> <<>>]

(* ------------------------------------------------------------------ *)
(* Steps shared by the handlers                                         *)
(* ------------------------------------------------------------------ *)
Call(op, arg) == [op |-> op, arg |-> arg]
Response(status, body) == [status |-> status, body |-> body]
ErrorBody(message) == Obj([error |-> message])

\* an upstream call goes out and the handler waits at pcNext
Issue(r, op, arg, pcNext) ==
  /\ calls' = [calls EXCEPT ![r] = Append(@, Call(op, arg))]
  /\ pc' = [pc EXCEPT ![r] = pcNext]

\* res.status(status).json(body), ending the handler
Send(r, status, body) ==
  /\ sent' = [sent EXCEPT ![r] = Append(@, Response(status, body))]
  /\ pc' = [pc EXCEPT ![r] = "done"]

\* the awaited call completes with `outcome`
Complete(r, outcome) == rets' = [rets EXCEPT ![r] = Append(@, outcome)]

EndpointLabel(endpoint) ==
  CASE endpoint = "analyze" -> "Analyze-image endpoint error:"
    [] endpoint = "lookup" -> "Nutrition endpoint error:"
    [] endpoint = "vision" -> "Vision endpoint error:"
EndpointDefault(endpoint) ==
  CASE endpoint = "analyze" -> Lit("Failed to analyze image")
    [] endpoint = "lookup" -> Lit("Nutrition lookup failed")
    [] endpoint = "vision" -> Lit("Vision failed")

\* a catch block that logs the error and writes no response
HandlerCatchSilent(r, res) ==
  /\ log' = [log EXCEPT ![r] =
               @ \o res.lines \o << <<EndpointLabel(req[r].endpoint), MessageOf(res.v)>> >>]
  /\ pc' = [pc EXCEPT ![r] = "done"]
  /\ sent' = sent

\* the catch block of a handler, reached with the failed adapter's result
HandlerCatch(r, res) ==
  /\ log' = [log EXCEPT ![r] =
               @ \o res.lines \o << <<EndpointLabel(req[r].endpoint), MessageOf(res.v)>> >>]
  /\ Send(r, 500, ErrorBody(Or(Get(res.v, "message"), EndpointDefault(req[r].endpoint))))

\* a switch whose cases 4 and 5 name each other's adapter
analyzeSwitchSwapped(n) ==
  CASE n = Num(1) -> "Edamam1"
    [] n = Num(2) -> "Edamam2"
    [] n = Num(3) -> "FatSecret"
    [] n = Num(4) -> "Spoonacular"
    [] n = Num(5) -> "OpenFoodFacts"
    [] OTHER -> "invalid"

\* the adapter named by a case of the switch, or "invalid" for its default
analyzeSwitch(n) ==
  CASE n = Num(1) -> "Edamam1"
    [] n = Num(2) -> "Edamam2"
    [] n = Num(3) -> "FatSecret"
    [] n = Num(4) -> "OpenFoodFacts"
    [] n = Num(5) -> "Spoonacular"
    [] OTHER -> "invalid"
\* a switch without the case for tab 6
lookupSwitchNoSix(n) ==
  CASE n = Num(1) -> "Edamam1"
    [] n = Num(2) -> "Edamam2"
    [] n = Num(3) -> "FatSecret"
    [] n = Num(4) -> "OpenFoodFacts"
    [] n = Num(5) -> "Spoonacular"
    [] OTHER -> "invalid"

lookupSwitch(n) ==
  CASE n = Num(1) -> "Edamam1"
    [] n = Num(2) -> "Edamam2"
    [] n = Num(3) -> "FatSecret"
    [] n = Num(4) -> "OpenFoodFacts"
    [] n = Num(5) -> "Spoonacular"
    [] n = Num(6) -> "OpenAIByName"
    [] OTHER -> "invalid"

\* the first upstream call of an adapter given the dish name
FirstCall(adapter, name) ==
  CASE adapter = "Edamam1" -> Call("edamam.nutrition", Obj([query |-> name]))
    [] adapter = "Edamam2" -> Call("edamam.parser", Obj([ingr |-> name]))
    [] adapter = "FatSecret" -> Call("fatsecret.token", Obj([grant_type |-> Lit("client_credentials")]))
    [] adapter = "OpenFoodFacts" -> Call("off.search", Obj([search_terms |-> name]))
    [] adapter = "Spoonacular" -> Call("spoonacular.guess", Obj([title |-> name]))
    [] adapter = "OpenAIByName" -> Call("openai.byName", Obj([foodName |-> name]))
FirstPc(adapter) ==
  CASE adapter = "FatSecret" -> "FatSecret.token"
    [] adapter = "Spoonacular" -> "Spoonacular.guess"
    [] OTHER -> adapter

\* calling an adapter: its parameter is bound and its first call goes out
Invoke(r, adapter, name) ==
  /\ locals' = [locals EXCEPT ![r] = [foodName |-> name, token |-> Undef]]
  /\ Issue(r, FirstCall(adapter, name).op, FirstCall(adapter, name).arg, FirstPc(adapter))

\* the dish name a handler answers with: q for the name-only lookup, the
\* recognized name otherwise
AnsweredName(r) == IF req[r].endpoint = "lookup" THEN req[r].q ELSE foodName[r]

\* the handler's continuation once its adapter has returned or thrown
AdapterDone(r, res) ==
  /\ IF res.ok
     THEN /\ Send(r, 200, Obj([foodName |-> AnsweredName(r), nutrition |-> res.v]))
          /\ UNCHANGED log
     ELSE HandlerCatch(r, res)
  /\ UNCHANGED <<calls, locals>>

\* a stage of a chained adapter ends the adapter or issues the next call
\* an Advance that keeps the bearer token in one place for all requests
AdvanceSharedToken(r, st) ==
  IF st.fin THEN AdapterDone(r, st.res)
  ELSE /\ Issue(r, st.op, st.arg, st.pc)
       /\ locals' = [o \in DOMAIN locals |-> [locals[o] EXCEPT !.token = st.token]]
       /\ UNCHANGED <<sent, log>>

Advance(r, st) ==
  IF st.fin THEN AdapterDone(r, st.res)
  ELSE /\ Issue(r, st.op, st.arg, st.pc)
       /\ locals' = [locals EXCEPT ![r].token = st.token]
       /\ UNCHANGED <<sent, log>>

(* ------------------------------------------------------------------ *)
(* POST /api/analyze-image                                              *)
(* ------------------------------------------------------------------ *)
\* a validation that looks at the image alone
MissingImageOnly(image, tab) == ~Truthy(image)

\* !image || !tab
MissingImageOrTab(image, tab) == ~Truthy(image) \/ ~Truthy(tab)

AnalyzeStart(r) ==
  /\ pc[r] = "idle"
  /\ \E image \in Images, tab \in AnalyzeTabs :
       /\ req' = [req EXCEPT ![r] = [endpoint |-> "analyze", image |-> image, tab |-> tab]]
       /\ IF MissingImageOrTab(image, tab)
          THEN /\ Send(r, 400, ErrorBody(Lit("Missing image or tab")))
               /\ UNCHANGED calls
          ELSE /\ Issue(r, "openai.vision", Obj([image_url |-> JpegDataUrl(image)]), "recognize")
               /\ UNCHANGED sent
  /\ UNCHANGED <<rets, foodName, locals, log>>

\* the handler resumes after `await analyzeWithOpenAI(image)`
AnalyzeRecognizedFrom(r, outcomes) ==
  /\ pc[r] = "recognize"
  /\ req[r].endpoint = "analyze"
  /\ \E outcome \in outcomes :
       LET res == analyzeWithOpenAI(outcome)
           n == ToNumber(req[r].tab)
       IN /\ Complete(r, outcome)
          /\ IF ~res.ok
             THEN HandlerCatch(r, res) /\ UNCHANGED <<calls, foodName, locals>>
             ELSE /\ foodName' = [foodName EXCEPT ![r] = res.v]
                  /\ IF n = Num(6)
                     THEN /\ Issue(r, "openai.imageNutrition",
                                   Obj([image_url |-> JpegDataUrl(req[r].image)]),
                                   "imageNutrition")
                          /\ UNCHANGED <<locals, sent, log>>
                     ELSE IF analyzeSwitch(n) = "invalid"
                     THEN /\ Send(r, 400, ErrorBody(Lit("Invalid tab (must be 1-6)")))
                          /\ UNCHANGED <<calls, locals, log>>
                     ELSE /\ Invoke(r, analyzeSwitch(n), res.v)
                          /\ UNCHANGED <<sent, log>>
  /\ UNCHANGED req
AnalyzeRecognized(r) == AnalyzeRecognizedFrom(r, RecognitionOutcomes)

\* the model's object passed on as it came
EnsureFoodNameSkipped(nutrition, name) == nutrition

\* if (!openaiNutrition.foodName) openaiNutrition.foodName = foodName
EnsureFoodName(nutrition, name) ==
  IF ~Truthy(Get(nutrition, "foodName"))
  THEN Obj([nutrition.f EXCEPT !["foodName"] = name])
  ELSE nutrition

\* the handler resumes after `await getNutritionFromOpenAIImage(image)`
ImageNutritionReturnsFrom(r, outcomes) ==
  /\ pc[r] = "imageNutrition"
  /\ \E outcome \in outcomes :
       LET res == getNutritionFromOpenAIImage(outcome) IN
         /\ Complete(r, outcome)
         /\ IF res.ok
            THEN /\ Send(r, 200, Obj([foodName |-> foodName[r],
                                      nutrition |-> EnsureFoodName(res.v, foodName[r])]))
                 /\ UNCHANGED log
            ELSE HandlerCatch(r, res)
  /\ UNCHANGED <<req, calls, foodName, locals>>
ImageNutritionReturns(r) == ImageNutritionReturnsFrom(r, ModelOutcomes)

(* ------------------------------------------------------------------ *)
(* GET /api/nutrition/:tab?q=                                            *)
(* ------------------------------------------------------------------ *)
LookupStart(r) ==
  /\ pc[r] = "idle"
  /\ \E tab \in LookupTabs, q \in Queries :
       /\ req' = [req EXCEPT ![r] = [endpoint |-> "lookup", tab |-> tab, q |-> q]]
       /\ IF ~Truthy(q)
          THEN /\ Send(r, 400, ErrorBody(Lit("Missing query param q (food name)")))
               /\ UNCHANGED <<calls, locals>>
          ELSE IF lookupSwitch(ToNumber(tab)) = "invalid"
          THEN /\ Send(r, 400, ErrorBody(Lit("Invalid tab (1-6)")))
               /\ UNCHANGED <<calls, locals>>
          ELSE /\ Invoke(r, lookupSwitch(ToNumber(tab)), q)
               /\ UNCHANGED sent
  /\ UNCHANGED <<rets, foodName, log>>

(* ------------------------------------------------------------------ *)
(* POST /api/openai/vision                                               *)
(* ------------------------------------------------------------------ *)
VisionStart(r) ==
  /\ pc[r] = "idle"
  /\ \E file \in Files :
       /\ req' = [req EXCEPT ![r] = [endpoint |-> "vision", file |-> file]]
       /\ IF ~Truthy(file)
          THEN /\ Send(r, 400, ErrorBody(Lit("Missing file")))
               /\ UNCHANGED calls
          ELSE /\ Issue(r, "openai.vision",
                        Obj([image_url |->
                               JpegDataUrl(bufferToDataUrl(Get(file, "buffer"),
                                             Or(Get(file, "mimetype"), Lit("image/jpeg"))))]),
                        "recognize")
               /\ UNCHANGED sent
  /\ UNCHANGED <<rets, foodName, locals, log>>

VisionRecognizedFrom(r, outcomes) ==
  /\ pc[r] = "recognize"
  /\ req[r].endpoint = "vision"
  /\ \E outcome \in outcomes :
       LET res == analyzeWithOpenAI(outcome) IN
         /\ Complete(r, outcome)
         /\ IF res.ok
            THEN /\ foodName' = [foodName EXCEPT ![r] = res.v]
                 /\ Send(r, 200, Obj([foodName |-> res.v]))
                 /\ UNCHANGED log
            ELSE HandlerCatch(r, res) /\ UNCHANGED foodName
  /\ UNCHANGED <<req, calls, locals>>
VisionRecognized(r) == VisionRecognizedFrom(r, RecognitionOutcomes)

(* ------------------------------------------------------------------ *)
(* The adapters' awaits completing                                       *)
(* ------------------------------------------------------------------ *)
AxiosOutcomes(bodies) == AxiosFailures \cup {AxiosResponse(b) : b \in bodies}
\* what each endpoint's call may do: fail in transport, or answer with a body
Edamam1Outcomes == AxiosOutcomes(Edamam1Bodies)
Edamam2Outcomes == AxiosOutcomes(Edamam2Bodies)
OffOutcomes == AxiosOutcomes(OffBodies)
FsTokenOutcomes == AxiosOutcomes(FsTokenBodies)
FsSearchOutcomes == AxiosOutcomes(FsSearchBodies)
FsDetailOutcomes == AxiosOutcomes(FsDetailBodies)
SpGuessOutcomes == AxiosOutcomes(SpGuessBodies)
SpSearchOutcomes == AxiosOutcomes(SpSearchBodies)
SpInfoOutcomes == AxiosOutcomes(SpInfoBodies)

Edamam1ReturnsFrom(r, outcomes) ==
  /\ pc[r] = "Edamam1"
  /\ \E outcome \in outcomes :
       Complete(r, outcome) /\ AdapterDone(r, getNutritionEdamam1(outcome))
  /\ UNCHANGED <<req, foodName>>
Edamam1Returns(r) == Edamam1ReturnsFrom(r, Edamam1Outcomes)

Edamam2ReturnsFrom(r, outcomes) ==
  /\ pc[r] = "Edamam2"
  /\ \E outcome \in outcomes :
       Complete(r, outcome) /\ AdapterDone(r, getNutritionEdamam2(outcome))
  /\ UNCHANGED <<req, foodName>>
Edamam2Returns(r) == Edamam2ReturnsFrom(r, Edamam2Outcomes)

OpenFoodFactsReturnsFrom(r, outcomes) ==
  /\ pc[r] = "OpenFoodFacts"
  /\ \E outcome \in outcomes :
       Complete(r, outcome) /\ AdapterDone(r, getNutritionOpenFoodFacts(outcome))
  /\ UNCHANGED <<req, foodName>>
OpenFoodFactsReturns(r) == OpenFoodFactsReturnsFrom(r, OffOutcomes)

ByNameReturnsFrom(r, outcomes) ==
  /\ pc[r] = "OpenAIByName"
  /\ \E outcome \in outcomes :
       Complete(r, outcome) /\ AdapterDone(r, getNutritionFromOpenAIByName(outcome))
  /\ UNCHANGED <<req, foodName>>
ByNameReturns(r) == ByNameReturnsFrom(r, ModelOutcomes)

FatSecretTokenReturnsFrom(r, outcomes) ==
  /\ pc[r] = "FatSecret.token"
  /\ \E outcome \in outcomes :
       Complete(r, outcome) /\ Advance(r, FatSecretAfterToken(locals[r].foodName, outcome))
  /\ UNCHANGED <<req, foodName>>
FatSecretTokenReturns(r) == FatSecretTokenReturnsFrom(r, FsTokenOutcomes)

FatSecretSearchReturnsFrom(r, outcomes) ==
  /\ pc[r] = "FatSecret.search"
  /\ \E outcome \in outcomes :
       Complete(r, outcome) /\ Advance(r, FatSecretAfterSearch(locals[r].token, outcome))
  /\ UNCHANGED <<req, foodName>>
FatSecretSearchReturns(r) == FatSecretSearchReturnsFrom(r, FsSearchOutcomes)

FatSecretDetailReturnsFrom(r, outcomes) ==
  /\ pc[r] = "FatSecret.detail"
  /\ \E outcome \in outcomes :
       Complete(r, outcome) /\ Advance(r, FatSecretAfterDetail(outcome))
  /\ UNCHANGED <<req, foodName>>
FatSecretDetailReturns(r) == FatSecretDetailReturnsFrom(r, FsDetailOutcomes)

SpoonacularGuessReturnsFrom(r, outcomes) ==
  /\ pc[r] = "Spoonacular.guess"
  /\ \E outcome \in outcomes :
       Complete(r, outcome) /\ Advance(r, SpoonacularAfterGuess(locals[r].foodName, outcome))
  /\ UNCHANGED <<req, foodName>>
SpoonacularGuessReturns(r) == SpoonacularGuessReturnsFrom(r, SpGuessOutcomes)

SpoonacularSearchReturnsFrom(r, outcomes) ==
  /\ pc[r] = "Spoonacular.search"
  /\ \E outcome \in outcomes :
       Complete(r, outcome) /\ Advance(r, SpoonacularAfterSearch(outcome))
  /\ UNCHANGED <<req, foodName>>
SpoonacularSearchReturns(r) == SpoonacularSearchReturnsFrom(r, SpSearchOutcomes)

SpoonacularInfoReturnsFrom(r, outcomes) ==
  /\ pc[r] = "Spoonacular.info"
  /\ \E outcome \in outcomes :
       Complete(r, outcome) /\ Advance(r, SpoonacularAfterInfo(outcome))
  /\ UNCHANGED <<req, foodName>>
SpoonacularInfoReturns(r) == SpoonacularInfoReturnsFrom(r, SpInfoOutcomes)

Next ==
  \E r \in Requests :
    \/ AnalyzeStart(r)
    \/ AnalyzeRecognized(r)
    \/ ImageNutritionReturns(r)
    \/ LookupStart(r)
    \/ VisionStart(r)
    \/ VisionRecognized(r)
    \/ Edamam1Returns(r)
    \/ Edamam2Returns(r)
    \/ OpenFoodFactsReturns(r)
    \/ ByNameReturns(r)
    \/ FatSecretTokenReturns(r)
    \/ FatSecretSearchReturns(r)
    \/ FatSecretDetailReturns(r)
    \/ SpoonacularGuessReturns(r)
    \/ SpoonacularSearchReturns(r)
    \/ SpoonacularInfoReturns(r)

Spec == Init /\ [][Next]_vars

\* the awaited upstream call of request r settles: it resolves or rejects
Settles(r) ==
  \/ AnalyzeRecognized(r)
  \/ ImageNutritionReturns(r)
  \/ VisionRecognized(r)
  \/ Edamam1Returns(r)
  \/ Edamam2Returns(r)
  \/ OpenFoodFactsReturns(r)
  \/ ByNameReturns(r)
  \/ FatSecretTokenReturns(r)
  \/ FatSecretSearchReturns(r)
  \/ FatSecretDetailReturns(r)
  \/ SpoonacularGuessReturns(r)
  \/ SpoonacularSearchReturns(r)
  \/ SpoonacularInfoReturns(r)

\* the handlers under the assumption that every awaited call settles
FairSpec == Init /\ [][Next]_vars /\ \A r \in Requests : WF_vars(Settles(r))

(* ------------------------------------------------------------------ *)
(* The image codec on its own: stripBase64Prefix applied to an input,   *)
(* then to its own result. `req` holds the input; `locals` holds the     *)
(* value returned (out) and the value it was computed from (from).       *)
(* ------------------------------------------------------------------ *)
CodecInit ==
  /\ req \in [Requests -> CodecInputs]
  /\ pc = [r \in Requests |-> "idle"]
  /\ calls = [r \in Requests |-> <<>>]
  /\ rets = [r \in Requests |-> <<>>]
  /\ foodName = [r \in Requests |-> Undef]
  /\ locals = [r \in Requests |-> NoLocals]
  /\ sent = [r \in Requests |-> <<>>]
  /\ log = [r \in Requests |-> <<>>]

\* stripBase64Prefix(input)
CodecStrip(r) ==
  /\ pc[r] = "idle"
  /\ locals' = [locals EXCEPT ![r] = [from |-> req[r].input,
                                      out |-> stripBase64Prefix(req[r].input)]]
  /\ pc' = [pc EXCEPT ![r] = "stripped"]
  /\ UNCHANGED <<req, calls, rets, foodName, sent, log>>

\* stripBase64Prefix(stripBase64Prefix(input))
CodecStripAgain(r) ==
  /\ pc[r] = "stripped"
  /\ locals' = [locals EXCEPT ![r] = [from |-> locals[r].out,
                                      out |-> stripBase64Prefix(locals[r].out)]]
  /\ pc' = [pc EXCEPT ![r] = "stripped twice"]
  /\ UNCHANGED <<req, calls, rets, foodName, sent, log>>

CodecNext == \E r \in Requests : CodecStrip(r) \/ CodecStripAgain(r)

CodecSpec == CodecInit /\ [][CodecNext]_vars

(* ------------------------------------------------------------------ *)
(* Two requests in flight: the handlers of two requests interleave at   *)
(* their awaits. Each request's inputs and upstream answers are drawn   *)
(* from a few of those of the one-request specification.                *)
(* ------------------------------------------------------------------ *)
ConcRequests == {1, 2}

ConcInit ==
  /\ req = [r \in ConcRequests |-> [endpoint |-> "none"]]
  /\ pc = [r \in ConcRequests |-> "idle"]
  /\ calls = [r \in ConcRequests |-> <<>>]
  /\ rets = [r \in ConcRequests |-> <<>>]
  /\ foodName = [r \in ConcRequests |-> Undef]
  /\ locals = [r \in ConcRequests |-> NoLocals]
  /\ sent = [r \in ConcRequests |-> <<>>]
  /\ log = [r \in ConcRequests |-> <<>>]

\* the upstream answers of the two-request runs: the transport and SDK errors,
\* two dish names, and for every endpoint an answer its adapter goes on from
ConcOutcomes ==
  AxiosFailures \cup {Threw(e) : e \in OpenAIErrors}
    \cup {Returned(ChatResponse(c)) :
            c \in {Str(<<"p", "i">>), Str(<<" ", "r", " ">>),
                   Str(<<"{", "\"calories\":250", "}">>)}}
    \cup {AxiosResponse(b) :
            b \in {EmptyObj,
                   Obj([calories |-> Num(MaxAmount), totalNutrients |-> Undef]),
                   Obj([parsed |-> Arr(<<Obj([food |-> Edamam2Food(Num(MaxAmount), Undef)])>>),
                        hints |-> Undef]),
                   Obj([products |-> Arr(<<Obj([nutriments |-> Undef])>>)]),
                   Obj([access_token |-> Lit("tok")]),
                   Obj([foods |-> Obj([food |-> Arr(<<Obj([food_id |-> Lit("33"), id |-> Undef])>>)])]),
                   Obj([food |-> Obj([servings |-> Obj([serving |-> Arr(<<>>)])])]),
                   Obj([results |-> Arr(<<Obj([id |-> Num(9)])>>)]),
                   Obj([nutrition |-> EmptyObj])}}

\* the answers drawn at each await of the two-request runs
ConcAnswers ==
  [recognize |-> RecognitionOutcomes \cap ConcOutcomes,
   model |-> ModelOutcomes \cap ConcOutcomes,
   Edamam1 |-> Edamam1Outcomes \cap ConcOutcomes,
   Edamam2 |-> Edamam2Outcomes \cap ConcOutcomes,
   OpenFoodFacts |-> OffOutcomes \cap ConcOutcomes,
   FatSecretToken |-> FsTokenOutcomes \cap ConcOutcomes,
   FatSecretSearch |-> FsSearchOutcomes \cap ConcOutcomes,
   FatSecretDetail |-> FsDetailOutcomes \cap ConcOutcomes,
   SpoonacularGuess |-> SpGuessOutcomes \cap ConcOutcomes,
   SpoonacularSearch |-> SpSearchOutcomes \cap ConcOutcomes,
   SpoonacularInfo |-> SpInfoOutcomes \cap ConcOutcomes]

\* the request's inputs are among those of the two-request runs
ConcBound(r) ==
  /\ req[r].endpoint = "analyze" =>
       req[r].image \in {Undef, Str(<<"Q", "Q">>)} /\ req[r].tab \in {Num(n) : n \in 1..MaxTab}
  /\ req[r].endpoint = "lookup" =>
       req[r].q \in {Undef, Str(<<"p", "i">>)} /\ req[r].tab \in {DigitText(n) : n \in 1..MaxTab}

ConcNext ==
  \E r \in ConcRequests :
    \/ AnalyzeStart(r) /\ ConcBound(r)'
    \/ AnalyzeRecognizedFrom(r, ConcAnswers.recognize)
    \/ ImageNutritionReturnsFrom(r, ConcAnswers.model)
    \/ LookupStart(r) /\ ConcBound(r)'
    \/ VisionStart(r)
    \/ VisionRecognizedFrom(r, ConcAnswers.recognize)
    \/ Edamam1ReturnsFrom(r, ConcAnswers.Edamam1)
    \/ Edamam2ReturnsFrom(r, ConcAnswers.Edamam2)
    \/ OpenFoodFactsReturnsFrom(r, ConcAnswers.OpenFoodFacts)
    \/ ByNameReturnsFrom(r, ConcAnswers.model)
    \/ FatSecretTokenReturnsFrom(r, ConcAnswers.FatSecretToken)
    \/ FatSecretSearchReturnsFrom(r, ConcAnswers.FatSecretSearch)
    \/ FatSecretDetailReturnsFrom(r, ConcAnswers.FatSecretDetail)
    \/ SpoonacularGuessReturnsFrom(r, ConcAnswers.SpoonacularGuess)
    \/ SpoonacularSearchReturnsFrom(r, ConcAnswers.SpoonacularSearch)
    \/ SpoonacularInfoReturnsFrom(r, ConcAnswers.SpoonacularInfo)

ConcSpec == ConcInit /\ [][ConcNext]_vars

(* ------------------------------------------------------------------ *)
(* Vocabulary of the properties                                         *)
(* ------------------------------------------------------------------ *)
Done(r) == pc[r] = "done"
IsAnalyze(r) == req[r].endpoint = "analyze"
IsLookup(r) == req[r].endpoint = "lookup"
Ops(r) == {calls[r][i].op : i \in 1..Len(calls[r])}
\* the upstream operations behind each tab
TabOps(k) ==
  CASE k = 1 -> {"edamam.nutrition"}
    [] k = 2 -> {"edamam.parser"}
    [] k = 3 -> {"fatsecret.token", "fatsecret.search", "fatsecret.detail"}
    [] k = 4 -> {"off.search"}
    [] k = 5 -> {"spoonacular.guess", "spoonacular.search", "spoonacular.info"}
    [] k = 6 -> {"openai.byName"}
NameProviderOps == UNION {TabOps(k) : k \in 1..6}
ProviderOps == NameProviderOps \cup {"openai.imageNutrition"}
\* the request's tab read as a number is one of lo..hi
TabIn(r, lo, hi) ==
  LET n == ToNumber(req[r].tab) IN n.t = "num" /\ n.n \in lo..hi
\* exactly one response was written, a client error / a server error / a success
OneResponse(r) == Done(r) /\ Len(sent[r]) = 1
ClientError(r) == OneResponse(r) /\ sent[r][1].status \in 400..499
              /\ Get(sent[r][1].body, "error") # Undef
ErrorResponse(r) == OneResponse(r) /\ sent[r][1].status \in 400..599
              /\ Get(sent[r][1].body, "error") # Undef
Success(r) == OneResponse(r) /\ sent[r][1].status = 200
\* the first completed call of an analyze run is recognition; it fails when
\* the call throws or its text is absent, empty or blank
BlankText(c) == c.t # "str" \/ \A i \in 1..Len(c.s) : IsSpace(c.s[i])
RecognitionReturned(r) == Len(rets[r]) >= 1
RecognitionFailed(r) ==
  /\ RecognitionReturned(r)
  /\ ~rets[r][1].ok \/ BlankText(ChatContent(rets[r][1].v))
RecognitionSucceeded(r) == RecognitionReturned(r) /\ ~RecognitionFailed(r)
\* the dish name recognition returned: the model's text without the blanks
\* around it
RecognizedName(r) == Str(Trim(ChatContent(rets[r][1].v).s))

(* ------------------------------------------------------------------ *)
(* C1: analyze with an image and a tab outside 1..6 answers with a      *)
(* client error and issues no upstream call at all, recognition          *)
(* included.                                                             *)
(* ------------------------------------------------------------------ *)
C1_InvalidTabNoNetworkCall ==
  \A r \in Requests :
    (IsAnalyze(r) /\ Truthy(req[r].image) /\ ~TabIn(r, 1, 6)) =>
      /\ calls[r] = <<>>
      /\ Done(r) => ClientError(r)

(* ------------------------------------------------------------------ *)
(* C2: when recognition fails in analyze, no nutrition provider call is *)
(* ever issued, whatever the tab, and the run ends with an error        *)
(* response.                                                             *)
(* ------------------------------------------------------------------ *)
C2_RecognitionFailureIsTerminal ==
  \A r \in Requests :
    (IsAnalyze(r) /\ RecognitionFailed(r)) =>
      /\ Ops(r) \cap ProviderOps = {}
      /\ Len(calls[r]) = 1
      /\ ErrorResponse(r)

C2_Witness ==
  \E r \in Requests :
    /\ IsAnalyze(r) /\ RecognitionFailed(r) /\ Done(r)
    /\ rets[r][1].ok
    /\ TabIn(r, 1, 6)

(* ------------------------------------------------------------------ *)
(* C3: analyze with image or tab missing ends with a client error and   *)
(* issues no upstream call; an upstream call is only ever issued once   *)
(* both fields were found present.                                       *)
(* ------------------------------------------------------------------ *)
C3_MissingInputNoUpstreamCall ==
  \A r \in Requests :
    IsAnalyze(r) =>
      /\ (~Truthy(req[r].image) \/ ~Truthy(req[r].tab)) =>
            calls[r] = <<>> /\ ClientError(r)
      /\ calls[r] # <<>> => Truthy(req[r].image) /\ Truthy(req[r].tab)

C3_Witness ==
  \E r \in Requests :
    /\ IsAnalyze(r) /\ Truthy(req[r].image) /\ req[r].tab = Undef
    /\ ClientError(r) /\ calls[r] = <<>>

(* ------------------------------------------------------------------ *)
(* C4: analyze with tab 1..5 and a successful recognition invokes the   *)
(* adapter of that tab and no other, after recognition has completed,   *)
(* with the recognized dish name; a success answers with that name and  *)
(* that adapter's record.                                                *)
(* ------------------------------------------------------------------ *)
\* the calls whose request carries the dish name
NameCarryingOps ==
  {"edamam.nutrition", "edamam.parser", "fatsecret.search", "off.search",
   "spoonacular.guess", "spoonacular.search", "openai.byName"}
Carries(call, name) == \E key \in DOMAIN call.arg.f : call.arg.f[key] = name
\* the record the adapter of tab k makes of its last answer
AdapterRecord(k, lastCall, name, outcome) ==
  CASE k = 1 -> getNutritionEdamam1(outcome).v
    [] k = 2 -> getNutritionEdamam2(outcome).v
    [] k = 3 -> FatSecretAfterDetail(outcome).res.v
    [] k = 4 -> getNutritionOpenFoodFacts(outcome).v
    [] k = 5 -> IF lastCall.op = "spoonacular.guess"
                THEN SpoonacularAfterGuess(name, outcome).res.v
                ELSE SpoonacularAfterInfo(outcome).res.v
    [] k = 6 -> getNutritionFromOpenAIByName(outcome).v
\* the run's calls from the `from`-th on are those of tab k's adapter, given `name`
AdapterRun(r, k, from, name) ==
  /\ Len(calls[r]) >= from
  /\ \A i \in from..Len(calls[r]) :
       /\ calls[r][i].op \in TabOps(k)
       /\ calls[r][i].op \in NameCarryingOps => Carries(calls[r][i], name)
  /\ locals[r].foodName = name
  /\ Success(r) =>
       /\ Get(sent[r][1].body, "foodName") = name
       /\ Get(sent[r][1].body, "nutrition") =
            AdapterRecord(k, calls[r][Len(calls[r])], name, rets[r][Len(rets[r])])

C4_TabSelectsItsAdapter ==
  \A r \in Requests :
    IsAnalyze(r) =>
      /\ Ops(r) \cap ProviderOps # {} =>
           RecognitionSucceeded(r) /\ calls[r][1].op = "openai.vision"
      /\ (TabIn(r, 1, 5) /\ RecognitionSucceeded(r)) =>
           AdapterRun(r, ToNumber(req[r].tab).n, 2, RecognizedName(r))

C4_Witness ==
  \E r \in Requests :
    /\ IsAnalyze(r) /\ TabIn(r, 3, 3) /\ Success(r)
    /\ Len(calls[r]) = 4
    /\ ChatContent(rets[r][1].v) # RecognizedName(r)

(* ------------------------------------------------------------------ *)
(* C5: analyze with tab 6 runs recognition once, then the image         *)
(* nutrition call once, and no name-based adapter; the answer's         *)
(* foodName is the recognized name, and nutrition.foodName is the name  *)
(* of the second call, or the recognized name when the second call gave *)
(* none, so it is never missing or empty.                                *)
(* ------------------------------------------------------------------ *)
C5_Tab6RunsBothModelCalls ==
  \A r \in Requests :
    (IsAnalyze(r) /\ TabIn(r, 6, 6)) =>
      /\ Ops(r) \cap NameProviderOps = {}
      /\ Len(calls[r]) <= 2
      /\ Len(calls[r]) >= 1 => calls[r][1].op = "openai.vision"
      /\ Len(calls[r]) = 2 => calls[r][2].op = "openai.imageNutrition"
      /\ RecognitionSucceeded(r) <=> Len(calls[r]) = 2
      /\ Success(r) =>
           LET nutrition == Get(sent[r][1].body, "nutrition")
               second == Get(getNutritionFromOpenAIImage(rets[r][2]).v, "foodName")
           IN /\ Get(sent[r][1].body, "foodName") = RecognizedName(r)
              /\ Get(nutrition, "foodName") =
                   (IF Truthy(second) THEN second ELSE RecognizedName(r))
              /\ Get(nutrition, "foodName").t = "str"
              /\ Get(nutrition, "foodName").s # <<>>

C5_Witness ==
  \E r \in Requests :
    /\ IsAnalyze(r) /\ TabIn(r, 6, 6) /\ Success(r)
    /\ Get(Get(sent[r][1].body, "nutrition"), "foodName") # Get(sent[r][1].body, "foodName")

(* ------------------------------------------------------------------ *)
(* C6: the OAuth-backed adapter calls token exchange, search, detail in *)
(* that order, each at most once; without a token it calls neither the  *)
(* search nor the detail endpoint, and without a food found it does not *)
(* call the detail endpoint.                                             *)
(* ------------------------------------------------------------------ *)
IsFatSecretCall(c) == c.op \in TabOps(3)
FatSecretOps(r) ==
  LET fs == SelectSeq(calls[r], IsFatSecretCall) IN [i \in 1..Len(fs) |-> fs[i].op]
\* the answer to the run's call `op`, when it has come
Answered(r, op) == \E i \in 1..Len(rets[r]) : calls[r][i].op = op
AnswerTo(r, op) == rets[r][CHOOSE i \in 1..Len(rets[r]) : calls[r][i].op = op]
NoToken(o) ==
  ~o.ok \/ ~Truthy(Get(o.v, "data")) \/ ~Truthy(Get(Get(o.v, "data"), "access_token"))
NoFood(o) == ~o.ok \/ ~Truthy(FatSecretFirstFood(Get(o.v, "data")))

C6_FatSecretCallOrder ==
  \A r \in Requests :
    /\ FatSecretOps(r) \in
         {<<>>, <<"fatsecret.token">>, <<"fatsecret.token", "fatsecret.search">>,
          <<"fatsecret.token", "fatsecret.search", "fatsecret.detail">>}
    /\ (Answered(r, "fatsecret.token") /\ NoToken(AnswerTo(r, "fatsecret.token"))) =>
         Ops(r) \cap {"fatsecret.search", "fatsecret.detail"} = {}
    /\ (Answered(r, "fatsecret.search") /\ NoFood(AnswerTo(r, "fatsecret.search"))) =>
         "fatsecret.detail" \notin Ops(r)

C6_Witness ==
  \E r \in Requests :
    /\ Answered(r, "fatsecret.token")
    /\ AnswerTo(r, "fatsecret.token").ok
    /\ NoToken(AnswerTo(r, "fatsecret.token"))
    /\ Done(r)

(* ------------------------------------------------------------------ *)
(* C7: when a stage of the OAuth-backed adapter fails for want of a     *)
(* token, of a search hit or of serving data, the error the caller gets *)
(* names that stage.                                                     *)
(* ------------------------------------------------------------------ *)
\* the stage at which the run's OAuth-backed adapter found nothing to go on
FailedStage(r) ==
  IF Answered(r, "fatsecret.detail")
  THEN IF AnswerTo(r, "fatsecret.detail").ok
          /\ ~FatSecretAfterDetail(AnswerTo(r, "fatsecret.detail")).res.ok
       THEN "detail" ELSE "none"
  ELSE IF Answered(r, "fatsecret.search")
  THEN IF AnswerTo(r, "fatsecret.search").ok /\ NoFood(AnswerTo(r, "fatsecret.search"))
       THEN "search" ELSE "none"
  ELSE IF Answered(r, "fatsecret.token")
  THEN IF AnswerTo(r, "fatsecret.token").ok /\ NoToken(AnswerTo(r, "fatsecret.token"))
       THEN "token" ELSE "none"
  ELSE "none"
\* the text by which an error names a stage
StageText(stage) ==
  CASE stage = "token" -> "FatSecret token failed"
    [] stage = "search" -> "FatSecret: no food found"
    [] stage = "detail" -> "FatSecret: no serving info"
Mentions(message, text) ==
  message.t = "str" /\ \E i \in 1..Len(message.s) : message.s[i] = text

C7_FatSecretErrorNamesStage ==
  \A r \in Requests :
    (Done(r) /\ FailedStage(r) # "none") =>
      /\ ErrorResponse(r)
      /\ Mentions(Get(sent[r][1].body, "error"), StageText(FailedStage(r)))

(* ------------------------------------------------------------------ *)
(* C8: an upstream answer that stands for "nothing found" (an empty     *)
(* body) makes the adapter fail: the run never answers it with a        *)
(* record, let alone one whose fields are all zero.                      *)
(* ------------------------------------------------------------------ *)
\* the last answer of the run came from a provider and holds nothing
NothingFound(r) ==
  /\ calls[r] # <<>>
  /\ Len(rets[r]) = Len(calls[r])
  /\ LET call == calls[r][Len(calls[r])]
         o == rets[r][Len(rets[r])]
     IN /\ call.op \in ProviderOps
        /\ o.ok
        /\ IF call.op \in {"openai.byName", "openai.imageNutrition"}
           THEN ~Truthy(ChatContent(o.v))
           ELSE Get(o.v, "data") \in {Undef, EmptyObj}

C8_NothingFoundIsAnError ==
  \A r \in Requests : (Done(r) /\ NothingFound(r)) => ~Success(r)

(* ------------------------------------------------------------------ *)
(* C9: every record an adapter returns has calories, protein, carbs and *)
(* fat, each a number.                                                   *)
(* ------------------------------------------------------------------ *)
RecordFields == {"calories", "protein", "carbs", "fat"}
IsNumber(v) == v.t = "num"

C9_RecordFieldsAreNumbers ==
  \A r \in Requests :
    (Success(r) /\ (IsAnalyze(r) \/ IsLookup(r))) =>
      \A k \in RecordFields : IsNumber(Get(Get(sent[r][1].body, "nutrition"), k))

(* ------------------------------------------------------------------ *)
(* C10: the name-only lookup never calls recognition; with a name and a *)
(* tab in 1..6 it invokes the adapter of that tab and no other, with    *)
(* the name as given, and answers with that name; with no name or a tab *)
(* outside 1..6 it answers with a client error and calls nothing.        *)
(* ------------------------------------------------------------------ *)
C10_LookupSkipsRecognition ==
  \A r \in Requests :
    IsLookup(r) =>
      /\ Ops(r) \cap {"openai.vision", "openai.imageNutrition"} = {}
      /\ (Truthy(req[r].q) /\ TabIn(r, 1, 6)) =>
           AdapterRun(r, ToNumber(req[r].tab).n, 1, req[r].q)
      /\ (~Truthy(req[r].q) \/ ~TabIn(r, 1, 6)) =>
           calls[r] = <<>> /\ ClientError(r)

C10_Witness ==
  \E r \in Requests :
    /\ IsLookup(r) /\ TabIn(r, 6, 6) /\ Success(r)
    /\ calls[r][1].op = "openai.byName"

(* ------------------------------------------------------------------ *)
(* C11: no stage is retried. In a run of analyze or lookupByName every  *)
(* upstream operation is invoked at most once, and once an upstream     *)
(* call has failed the run issues no further upstream call.             *)
(* ------------------------------------------------------------------ *)
\* the i-th upstream call of the run was answered by a failure
CallFailed(r, i) == i \in 1..Len(rets[r]) /\ ~rets[r][i].ok

C11_NoStageIsRetried ==
  \A r \in Requests :
    IsAnalyze(r) \/ IsLookup(r) =>
      /\ \A i, j \in 1..Len(calls[r]) : calls[r][i].op = calls[r][j].op => i = j
      /\ \A i \in 1..Len(calls[r]) : CallFailed(r, i) => Len(calls[r]) = i

\* a run ended after the second of two upstream calls failed
C11_Witness ==
  \E r \in Requests :
    /\ IsAnalyze(r) /\ Done(r) /\ ErrorResponse(r)
    /\ Len(calls[r]) = 3 /\ CallFailed(r, 3)
    /\ calls[r][2].op = "spoonacular.guess" /\ calls[r][3].op = "spoonacular.search"

(* ------------------------------------------------------------------ *)
(* C12: when recognition, the image-nutrition call or a provider        *)
(* adapter fails, the error text sent to the caller holds nothing taken *)
(* from an upstream response: no upstream error message, no error body, *)
(* no model output text. Upstream content goes to the log only.         *)
(* ------------------------------------------------------------------ *)
\* the text of a value, nothing when the value is not text
TextOf(v) == IF v.t = "str" THEN v.s ELSE <<>>
\* the texts the i-th upstream answer of the run carried: the message of the
\* error thrown and the message of its response body, or the model's output
UpstreamTextsAt(r, i) ==
  LET outcome == rets[r][i] IN
    IF ~outcome.ok
    THEN LET body == DetailOf(outcome.v) IN
           {TextOf(Get(outcome.v, "message")),
            IF body.t = "obj" THEN TextOf(Get(body, "message")) ELSE <<>>}
    ELSE IF calls[r][i].op \in {"openai.vision", "openai.imageNutrition", "openai.byName"}
    THEN {Trim(TextOf(ChatContent(outcome.v)))}
    ELSE {}
UpstreamTexts(r) == UNION {UpstreamTextsAt(r, i) : i \in 1..Len(rets[r])}
\* the error text of the run's response
ErrorText(r) == TextOf(Get(sent[r][1].body, "error"))

C12_ErrorTextHoldsNoUpstreamContent ==
  \A r \in Requests :
    ErrorResponse(r) =>
      \A text \in UpstreamTexts(r) : text # <<>> => ~Includes(ErrorText(r), text)

(* ------------------------------------------------------------------ *)
(* C13: every analyze run ends in exactly one of three outcomes: a      *)
(* success {foodName, nutrition}, a client fault {error} (image or tab  *)
(* missing, tab invalid) or a server fault {error} (recognition or a    *)
(* provider adapter failed). A client input error, an unrecognized tab  *)
(* included, is never answered with the server-fault status, and an     *)
(* adapter failure is never answered with client-fault or success.      *)
(* ------------------------------------------------------------------ *)
\* the request is at fault: image or tab missing, or a tab outside 1..6
ClientInputError(r) ==
  ~Truthy(req[r].image) \/ ~Truthy(req[r].tab) \/ ~TabIn(r, 1, 6)
\* recognition or a later upstream call of the run failed
AdapterFailed(r) ==
  RecognitionFailed(r) \/ \E i \in 1..Len(rets[r]) : CallFailed(r, i)
\* the fields a response body carries
BodyHas(r, key) == Get(sent[r][1].body, key) # Undef

C13_ThreeOutcomes ==
  \A r \in Requests :
    (IsAnalyze(r) /\ Done(r)) =>
      /\ OneResponse(r)
      /\ \/ Success(r) /\ BodyHas(r, "foodName") /\ BodyHas(r, "nutrition")
            /\ ~BodyHas(r, "error")
         \/ ErrorResponse(r) /\ BodyHas(r, "error") /\ ~BodyHas(r, "nutrition")
      /\ ClientInputError(r) => ClientError(r)
      /\ AdapterFailed(r) => sent[r][1].status \in 500..599

(* ------------------------------------------------------------------ *)
(* C14: the codec round trip. For every base64 payload p and every MIME *)
(* type m, stripBase64Prefix gives p both for "data:<m>;base64,<p>" and *)
(* for bare p; the same holds for the data URL bufferToDataUrl makes of *)
(* a file, whose payload is the base64 text of the file's bytes.        *)
(* ------------------------------------------------------------------ *)
\* the codec has been applied to the request's input, once
Stripped(r) == req[r].endpoint = "codec" /\ pc[r] = "stripped"

C14_StripRoundTrip ==
  \A r \in Requests :
    (Stripped(r) /\ req[r].kind \in {"bare", "dataUrl", "file"}) =>
      locals[r].out = req[r].payload

\* a data URL whose MIME type spells the marker's letters, and the data URL of
\* a two-byte file, have both been stripped
C14_Witness ==
  \E r \in Requests :
    /\ Stripped(r)
    /\ \/ req[r].input = DataUrl(<<"b", "a", "s", "e", "6", "4">>, <<"Q", "=">>)
       \/ req[r].kind = "file" /\ req[r].payload = Str(<<"T", "f", "8", "=">>)

(* ------------------------------------------------------------------ *)
(* C15: stripBase64Prefix is idempotent: applied to its own output it   *)
(* returns that output unchanged. A bare base64 string is returned      *)
(* unchanged, and an absent input (empty or undefined) passes through   *)
(* as it is, without an error.                                          *)
(* ------------------------------------------------------------------ *)
\* the codec has been applied to its own output
StrippedTwice(r) == req[r].endpoint = "codec" /\ pc[r] = "stripped twice"

C15_StripIsIdempotent ==
  \A r \in Requests :
    /\ StrippedTwice(r) => locals[r].out = locals[r].from
    /\ (Stripped(r) /\ req[r].kind \in {"bare", "absent"}) => locals[r].out = req[r].input

\* the output of stripping a data URL has been stripped again
C15_Witness ==
  \E r \in Requests :
    /\ StrippedTwice(r) /\ req[r].kind = "dataUrl"
    /\ req[r].payload = Str(<<"b", "a", "s", "e", "6", "4">>)
    /\ locals[r].from = req[r].payload

(* ------------------------------------------------------------------ *)
(* C16: both model-backed nutrition operations take the span from the   *)
(* first '{' to the last '}' of the model's text and parse it as JSON.  *)
(* A single JSON object wrapped in prose is returned as that object.    *)
(* They fail with an error and return no record when the text has no    *)
(* '{', no '}', its last '}' before its first '{', or a span that does  *)
(* not parse.                                                           *)
(* ------------------------------------------------------------------ *)
\* the model-backed nutrition operation of the run, and its answer
ModelOp(r) == IF IsAnalyze(r) THEN "openai.imageNutrition" ELSE "openai.byName"
ModelAnswered(r) ==
  /\ Done(r) /\ Answered(r, ModelOp(r)) /\ AnswerTo(r, ModelOp(r)).ok
  /\ ChatContent(AnswerTo(r, ModelOp(r)).v).t = "str"
ModelText(r) == ChatContent(AnswerTo(r, ModelOp(r)).v).s
\* the object a list of member tokens denotes
ObjectOf(members) ==
  Obj([k \in JsonKeys |->
        IF \E i \in 1..Len(members) : MemberTable[members[i]].k = k
        THEN MemberTable[members[CHOOSE i \in 1..Len(members) :
                                   MemberTable[members[i]].k = k]].v
        ELSE Undef])
\* the text is `pre {members} post` with brace-free prose around one object
IsWrapped(text, members) ==
  \E pre \in Prose, post \in Prose :
    text = pre \o <<"{">> \o Join(members) \o <<"}">> \o post
\* the positions (from 1) of the braces in a text
Opens(text) == {i \in 1..Len(text) : text[i] = "{"}
Closes(text) == {i \in 1..Len(text) : text[i] = "}"}
Min(S) == CHOOSE i \in S : \A j \in S : i <= j
Max(S) == CHOOSE i \in S : \A j \in S : i >= j
\* the text has no span, or its span does not parse
NoJsonIn(text) ==
  \/ Opens(text) = {}
  \/ Closes(text) = {}
  \/ Max(Closes(text)) < Min(Opens(text))
  \/ ~JSONParse(SubSeq(text, Min(Opens(text)), Max(Closes(text)))).ok
\* the record of the run's response, but for its name
Figures(v) == [k \in JsonKeys \ {"foodName"} |-> Get(v, k)]

C16_BraceSpanIsParsed ==
  \A r \in Requests :
    ModelAnswered(r) =>
      /\ \A n \in NameMembers, c \in CalorieMembers, m \in MacroMembers :
           IsWrapped(ModelText(r), n \o c \o m) =>
             /\ Success(r)
             /\ Figures(Get(sent[r][1].body, "nutrition")) = Figures(ObjectOf(n \o c \o m))
             /\ IsLookup(r) => Get(sent[r][1].body, "nutrition") = ObjectOf(n \o c \o m)
      /\ NoJsonIn(ModelText(r)) =>
           sent[r][1].status = 500 /\ ~BodyHas(r, "nutrition")

\* a lookup answered with an object between two pieces of prose
C16_Witness ==
  \E r \in Requests :
    /\ IsLookup(r) /\ ModelAnswered(r) /\ Success(r)
    /\ ModelText(r) = <<"O", "k", " ", "{", "\"calories\":250", "}", "O", "k", " ">>

(* ------------------------------------------------------------------ *)
(* C17: concurrent requests are independent. In every interleaving of   *)
(* two analyze or lookupByName requests in flight, each request's calls *)
(* and response are determined by its own inputs and by the upstream    *)
(* answers to its own calls, and no step of one request changes         *)
(* anything another request holds.                                      *)
(* ------------------------------------------------------------------ *)
\* everything a request holds
Local(r) == <<req[r], pc[r], calls[r], rets[r], foodName[r], locals[r], sent[r], log[r]>>
\* the request's calls carry its own name and its response is made of its own
\* name and of the answer to its own last call
OwnAnswers(r) ==
  /\ Len(rets[r]) <= Len(calls[r]) /\ Len(calls[r]) <= Len(rets[r]) + 1
  /\ foodName[r] # Undef =>
       RecognitionSucceeded(r) /\ foodName[r] = RecognizedName(r)
  /\ (IsAnalyze(r) /\ TabIn(r, 1, 5) /\ RecognitionSucceeded(r)) =>
       AdapterRun(r, ToNumber(req[r].tab).n, 2, RecognizedName(r))
  /\ (IsAnalyze(r) /\ TabIn(r, 6, 6) /\ Success(r)) =>
       Get(sent[r][1].body, "foodName") = RecognizedName(r)
  /\ (IsLookup(r) /\ Truthy(req[r].q) /\ TabIn(r, 1, 6)) =>
       AdapterRun(r, ToNumber(req[r].tab).n, 1, req[r].q)
\* a step that changes what one request holds leaves every other request alone
OneRequestSteps ==
  \A r \in ConcRequests :
    Local(r)' # Local(r) => \A o \in ConcRequests \ {r} : Local(o)' = Local(o)

C17_RequestsAreIndependent ==
  /\ [](\A r \in ConcRequests : OwnAnswers(r))
  /\ [][OneRequestSteps]_vars

\* two analyze requests in the middle of different adapter chains, with
\* different dish names
C17_Witness ==
  /\ IsAnalyze(1) /\ IsAnalyze(2)
  /\ pc[1] = "FatSecret.search" /\ pc[2] = "Spoonacular.search"
  /\ foodName[1] = Str(<<"p", "i">>) /\ foodName[2] = Str(<<"r">>)

(* ------------------------------------------------------------------ *)
(* C18: when every upstream call settles, a started request ends, and   *)
(* it ends with exactly one response written: a request that has not    *)
(* ended has written none, one that has ended has written one, and      *)
(* every request that started does end.                                 *)
(* ------------------------------------------------------------------ *)
Started(r) == pc[r] # "idle"
ResponsesMatchEnd(r) ==
  /\ Len(sent[r]) <= 1
  /\ Done(r) <=> Len(sent[r]) = 1
C18_OneResponseAlways ==
  /\ [](\A r \in Requests : ResponsesMatchEnd(r))
  /\ \A r \in Requests : Started(r) ~> OneResponse(r)
\* a request answered after three upstream calls, the last of which failed
C18_Witness ==
  \E r \in Requests :
    /\ OneResponse(r) /\ Len(rets[r]) = 3 /\ Len(calls[r]) = 3
    /\ ~rets[r][3].ok /\ sent[r][1].status = 500

(* ------------------------------------------------------------------ *)
(* C19: the recipe-nutrition adapter (tab 5) calls guess-nutrition      *)
(* first. When the guess carries a calorie figure (a number, 0          *)
(* included, or a { value } / { amount } wrapper of one) the adapter    *)
(* answers from it and calls nothing else. The ingredient search is     *)
(* called only after a guess whose calorie figure is absent, and the    *)
(* ingredient information only after a search that found a match, for   *)
(* that match, in that order. A search without a match fails the        *)
(* adapter with no information call, and a failed guess call fails it   *)
(* with no further call.                                                *)
(* ------------------------------------------------------------------ *)
\* the run reaches the adapter of tab 5; its first call is the run's SpFrom-th
RunsSpoonacular(r) ==
  \/ IsAnalyze(r) /\ TabIn(r, 5, 5) /\ RecognitionSucceeded(r)
  \/ IsLookup(r) /\ Truthy(req[r].q) /\ TabIn(r, 5, 5)
SpFrom(r) == IF IsAnalyze(r) THEN 2 ELSE 1
\* the i-th call of the run was answered, and the body of the answer
CallAnswered(r, i) == i \in 1..Len(rets[r]) /\ rets[r][i].ok
BodyOf(r, i) == Get(rets[r][i].v, "data")
\* the calorie figure of a guess: absent, or the number it carries
CalorieFigure(data) == IF data.t = "obj" THEN Get(data, "calories") ELSE Undef
FigureAbsent(c) == c \in {Undef, Null}
FigureNumber(c) ==
  IF c.t = "num" THEN c
  ELSE IF c.t = "obj" /\ Get(c, "value").t = "num" THEN Get(c, "value")
  ELSE IF c.t = "obj" /\ Get(c, "amount").t = "num" THEN Get(c, "amount")
  ELSE Undef
\* the matches of an ingredient search
Matches(data) ==
  IF data.t = "obj" /\ Get(data, "results").t = "arr" THEN Get(data, "results").e ELSE <<>>

C19_GuessThenSearchThenInfo ==
  \A r \in Requests :
    RunsSpoonacular(r) =>
      LET f == SpFrom(r)
          n == Len(calls[r])
          figure == CalorieFigure(BodyOf(r, f))
          matches == Matches(BodyOf(r, f + 1))
      IN /\ n \in f..(f + 2)
         /\ calls[r][f].op = "spoonacular.guess"
         /\ n >= f + 1 =>
              /\ calls[r][f + 1].op = "spoonacular.search"
              /\ CallAnswered(r, f) /\ FigureAbsent(figure)
         /\ n >= f + 2 =>
              /\ calls[r][f + 2].op = "spoonacular.info"
              /\ CallAnswered(r, f + 1) /\ matches # <<>>
              /\ Get(calls[r][f + 2].arg, "id") = Get(matches[1], "id")
         /\ (CallAnswered(r, f) /\ FigureNumber(figure) # Undef) =>
              /\ n = f /\ Success(r)
              /\ Get(Get(sent[r][1].body, "nutrition"), "calories") = FigureNumber(figure)
         /\ (CallAnswered(r, f) /\ FigureAbsent(figure)) => n >= f + 1
         /\ (CallAnswered(r, f + 1) /\ matches = <<>>) => n = f + 1 /\ ErrorResponse(r)
         /\ (CallAnswered(r, f + 1) /\ matches # <<>>) => n = f + 2
         /\ CallFailed(r, f) => n = f /\ ErrorResponse(r)

\* a run answered from the ingredient information, after a guess without a
\* calorie figure and a search with a match
C19_Witness ==
  \E r \in Requests :
    /\ IsLookup(r) /\ RunsSpoonacular(r) /\ Success(r)
    /\ Len(calls[r]) = 3 /\ calls[r][3].op = "spoonacular.info"
    /\ Get(Get(sent[r][1].body, "nutrition"), "calories") = Num(MaxAmount)

(* ------------------------------------------------------------------ *)
(* C20: the food-database parser adapter (tab 2) and the two lists of   *)
(* its answer, "parsed" and "hints".                                    *)
(* ------------------------------------------------------------------ *)
\* the run reaches the adapter of tab 2; its one call is the run's E2From-th
RunsEdamam2(r) ==
  \/ IsAnalyze(r) /\ TabIn(r, 2, 2) /\ RecognitionSucceeded(r)
  \/ IsLookup(r) /\ Truthy(req[r].q) /\ TabIn(r, 2, 2)
E2From(r) == IF IsAnalyze(r) THEN 2 ELSE 1
\* the entries of a list of the answer: none when the list is missing
Entries(data, list) ==
  IF data.t = "obj" /\ Get(data, list).t = "arr" THEN Get(data, list).e ELSE <<>>
FoodOf(entry) == Get(entry, "food")
\* the record made of a food: its four nutrients, 0 for one it does not give
NutrientOf(food, key) ==
  LET v == Get(Get(food, "nutrients"), key) IN IF v.t = "num" THEN v ELSE Num(0)
FoodRecord(food) ==
  Record(NutrientOf(food, "ENERC_KCAL"), NutrientOf(food, "PROCNT"),
         NutrientOf(food, "CHOCDF"), NutrientOf(food, "FAT"))
\* the run answered with the record of `food`, or with an error when there is none
AnswersFrom(r, food) ==
  IF food = Undef THEN ErrorResponse(r)
  ELSE Success(r) /\ Get(sent[r][1].body, "nutrition") = FoodRecord(food)

\* C20 as stated: the adapter takes the food of the first "parsed" entry when
\* that list has an entry, otherwise the food of the first "hints" entry, and
\* fails when neither list has an entry; no hint is used while a parsed entry
\* exists.
C20_ParsedEntryShadowsHints ==
  \A r \in Requests :
    (RunsEdamam2(r) /\ CallAnswered(r, E2From(r))) =>
      LET data == BodyOf(r, E2From(r))
          parsed == Entries(data, "parsed")
          hints == Entries(data, "hints")
      IN /\ Len(calls[r]) = E2From(r)
         /\ AnswersFrom(r, IF parsed # <<>> THEN FoodOf(parsed[1])
                            ELSE IF hints # <<>> THEN FoodOf(hints[1])
                            ELSE Undef)

\* C20 as the adapter behaves: it takes the food of the first "parsed" entry
\* when that entry has a food, otherwise the food of the first "hints" entry
\* when that entry has one, and fails when neither gives a food; a hint is
\* used only when no food comes from the first parsed entry.
C20_ParsedFoodShadowsHints ==
  \A r \in Requests :
    (RunsEdamam2(r) /\ CallAnswered(r, E2From(r))) =>
      LET data == BodyOf(r, E2From(r))
          parsed == Entries(data, "parsed")
          hints == Entries(data, "hints")
      IN /\ Len(calls[r]) = E2From(r)
         /\ AnswersFrom(r, IF parsed # <<>> /\ FoodOf(parsed[1]) # Undef THEN FoodOf(parsed[1])
                            ELSE IF hints # <<>> THEN FoodOf(hints[1])
                            ELSE Undef)

\* a run answered from the hint although "parsed" has an entry, one without food
C20_Witness ==
  \E r \in Requests :
    /\ RunsEdamam2(r) /\ CallAnswered(r, E2From(r)) /\ Success(r)
    /\ Entries(BodyOf(r, E2From(r)), "parsed") = <<EmptyObj>>
    /\ Get(Get(sent[r][1].body, "nutrition"), "calories") = Num(MaxAmount)

====
